---- MODULE Spec2Model ----
(***************************************************************************)
(* Tracking signal classification of the GTM/GA4 analyser.                 *)
(*                                                                         *)
(* One analysis (analyzeWebsite) is modelled as a state machine: request   *)
(* events arrive while the page is observed, the page content and the      *)
(* window objects are scanned, and the final classification builds the     *)
(* result record.  URLs and page text are real strings; the regular        *)
(* expressions and String.includes of the source are operators over them.  *)
(* A second specification, SpecBatch, is the POST /analyze route of the    *)
(* two servers: validation, the loop over the URLs with the export of each *)
(* result to Google Sheets, and the response.  A third specification,     *)
(* SpecSheets, is appendResultRow with its ensureHeaderRow as concurrent   *)
(* requests run it, one step per awaited Sheets API call.                  *)
(***************************************************************************)
EXTENDS Integers, Sequences, FiniteSets, TLC

(***************************************************************************)
(* Bounds                                                                  *)
(***************************************************************************)
MaxRequests == 2

\* longest urls list of a POST /analyze
MaxUrls == 4

\* appendResultRow calls each of the concurrent requests makes
MaxAppends == 2

(***************************************************************************)
(* Inputs: the request URLs a page may issue and the sites' page state     *)
(***************************************************************************)
UrlPool ==
    { "https://www.googletagmanager.com/gtm.js?id=GTM-ABC123",
      "https://www.googletagmanager.com/gtm.js?id=gtm-abc123",
      "https://www.googletagmanager.com/gtag/js?id=G-XYZ999",
      "https://www.googletagmanager.com/gtag/js",
      "https://www.googletagmanager.com/a?id=G-QWERTY1&gcs=G100",
      "https://www.google-analytics.com/g/collect?tid=G-XYZ999&gcs=G100&gcd=13p3p3p2p5l1",
      "https://www.google-analytics.com/g/collect?tid=G-XYZ999&gcs=G111&gcd=11l1p2",
      "https://www.google-analytics.com/collect?v=1",
      "https://analytics.example.com/g/collect?tid=G-XYZ999",
      "https://stats.example.com/analytics.js",
      "https://cdn.example.com/app.js" }

\* the address of the site, page.content(), Object.keys(window.google_tag_manager),
\* JSON.stringify(window.dataLayer), the text of the script tags, whether
\* window.Cookiebot and window.OneTrust / window.OnetrustActiveGroups are
\* defined, and Object.keys(localStorage)
SitePool ==
    { [website |-> "https://site1.example",
       content |-> "", tagManagerKeys |-> {}, dataLayer |-> "[]", scripts |-> {},
       Cookiebot |-> FALSE, OneTrust |-> FALSE, storageKeys |-> {}],
      [website |-> "https://site2.example",
       content |-> "<script src='https://consent.cookiebot.com/uc.js'></script><script>gtag('config', 'G-QWERTY1')</script>",
       tagManagerKeys |-> {}, dataLayer |-> "[]",
       scripts |-> {" https://consent.cookiebot.com/uc.js", "gtag('config', 'G-QWERTY1') "},
       Cookiebot |-> TRUE, OneTrust |-> FALSE, storageKeys |-> {"CookieConsent"}],
      [website |-> "https://site3.example",
       content |-> "<script src='https://cdn.onetrust.com/sdk.js'></script><a href='https://trustarc.com'>privacy</a><script>load('GTM-PAGE01')</script>",
       tagManagerKeys |-> {"GTM-ABC123", "dataLayer"}, dataLayer |-> "[{'gtm.start':1,'id':'GTM-DL0001'}]",
       scripts |-> {" https://cdn.onetrust.com/sdk.js", "load('GTM-PAGE01') "},
       Cookiebot |-> FALSE, OneTrust |-> FALSE, storageKeys |-> {"theme", "GDPR_status"}] }

(***************************************************************************)
(* Characters and string helpers (JavaScript String / RegExp semantics)    *)
(***************************************************************************)
LowerSeq == "abcdefghijklmnopqrstuvwxyz"
UpperSeq == "ABCDEFGHIJKLMNOPQRSTUVWXYZ"
DigitSeq == "0123456789"
PunctSeq == ":/.?=&-_<> ,;'()#%"

CharAt(u, i) == SubSeq(u, i, i)

CharsOf(s) == {CharAt(s, k) : k \in 1..Len(s)}

\* [A-Z0-9]
AlnumUpper == CharsOf(UpperSeq) \cup CharsOf(DigitSeq)

\* [A-Z0-9] under the i flag
AlnumAnyCase == AlnumUpper \cup CharsOf(LowerSeq)

\* [^&]
NotAmp == (AlnumAnyCase \cup CharsOf(PunctSeq)) \ {"&"}

ToUpper(c) ==
    IF \E k \in 1..Len(LowerSeq) : CharAt(LowerSeq, k) = c
    THEN CharAt(UpperSeq, CHOOSE k \in 1..Len(LowerSeq) : CharAt(LowerSeq, k) = c)
    ELSE c

Min(S) == CHOOSE m \in S : \A n \in S : m <= n

\* String.prototype.includes, position by position
IncludesAt(u, p) ==
    \E i \in 1..(Len(u) - Len(p) + 1) : SubSeq(u, i, i + Len(p) - 1) = p

\* the substrings the source looks for with includes
Needles ==
    { "googletagmanager.com", "google-analytics.com", "/g/collect", "analytics.",
      "googletagmanager.com/gtm.js", "googletagmanager.com/gtag/js",
      "gcs=G100", "gcs=G110", "gcs=",
      "cookiebot.com", "onetrust.com", "trustarc.com", "quantcast.mgr" }

\* the texts includes is applied to
Texts == UrlPool \cup {s.content : s \in SitePool}

\* for each text, the needles it includes (computed once)
IncludedNeedles == [u \in Texts |-> {p \in Needles : IncludesAt(u, p)}]

\* String.prototype.includes
Includes(u, p) ==
    IF p \in Needles /\ u \in Texts THEN p \in IncludedNeedles[u] ELSE IncludesAt(u, p)

\* the literal lit matches u at position i (ci: the i flag)
LitAt(u, i, lit, ci) ==
    /\ i + Len(lit) - 1 <= Len(u)
    /\ IF ci
       THEN \A k \in 1..Len(lit) : ToUpper(CharAt(u, i + k - 1)) = ToUpper(CharAt(lit, k))
       ELSE SubSeq(u, i, i + Len(lit) - 1) = lit

\* a pattern  <one of lits><cls>+  matches u at position i
MatchAt(u, i, lits, ci, cls) ==
    \E lit \in lits :
        /\ LitAt(u, i, lit, ci)
        /\ i + Len(lit) <= Len(u)
        /\ CharAt(u, i + Len(lit)) \in cls

\* leftmost match position at or after from, 0 when there is none
FirstMatch(u, from, lits, ci, cls) ==
    LET starts == {i \in from..Len(u) : MatchAt(u, i, lits, ci, cls)}
    IN  IF starts = {} THEN 0 ELSE Min(starts)

\* end of the greedy run cls+ that starts at position j
RECURSIVE RunEnd(_, _, _)
RunEnd(u, j, cls) ==
    IF j + 1 <= Len(u) /\ CharAt(u, j + 1) \in cls
    THEN RunEnd(u, j + 1, cls)
    ELSE j

\* result of String.match without a match
NoMatch == ""

\* capture group of the first match of  <lits>(...<cls>+) ; the group starts
\* skip characters after the match start, the literals are litLen long
Capture(u, lits, litLen, skip, ci, cls) ==
    LET i == FirstMatch(u, 1, lits, ci, cls)
    IN  IF i = 0 THEN NoMatch
        ELSE SubSeq(u, i + skip, RunEnd(u, i + litLen, cls))

\* all matches of a global (g flag) pattern  <lit><cls>+ , left to right,
\* not overlapping
RECURSIVE AllMatches(_, _, _, _, _)
AllMatches(u, from, lit, ci, cls) ==
    LET i == FirstMatch(u, from, {lit}, ci, cls)
    IN  IF i = 0 THEN {}
        ELSE LET e == RunEnd(u, i + Len(lit), cls)
             IN  {SubSeq(u, i, e)} \cup AllMatches(u, e + 1, lit, ci, cls)

(***************************************************************************)
(* The regular expressions of the request handler                          *)
(***************************************************************************)
\* gtmMatch1 taking the whole match instead of the capture group
gtmMatch1WholeMatch(url) == Capture(url, {"?id=GTM-", "&id=GTM-"}, 8, 0, TRUE, AlnumAnyCase)

\* /[?&]id=(GTM-[A-Z0-9]+)/i
gtmMatch1(url) == Capture(url, {"?id=GTM-", "&id=GTM-"}, 8, 4, TRUE, AlnumAnyCase)

\* /\/gtm\.js\?id=(GTM-[A-Z0-9]+)/i
gtmMatch2(url) == Capture(url, {"/gtm.js?id=GTM-"}, 15, 11, TRUE, AlnumAnyCase)

\* /(GTM-[A-Z0-9]+)/g
gtmMatch3(url) == AllMatches(url, 1, "GTM-", FALSE, AlnumUpper)

\* /[?&]id=(G-[A-Z0-9]+)/i
ga4FromGtmMatch(url) == Capture(url, {"?id=G-", "&id=G-"}, 6, 4, TRUE, AlnumAnyCase)

\* /[?&]tid=(G-[A-Z0-9]+)/i
ga4Match(url) == Capture(url, {"?tid=G-", "&tid=G-"}, 7, 5, TRUE, AlnumAnyCase)

\* /[?&]tid=(G-[A-Z0-9]+)/   (no i flag: branch test and hasCustomAnalytics)
tidMatch(url) == Capture(url, {"?tid=G-", "&tid=G-"}, 7, 5, FALSE, AlnumUpper)

\* /GTM-[A-Z0-9]+/g  on page content, dataLayer and script text
gtmInlineMatches(text) == AllMatches(text, 1, "GTM-", FALSE, AlnumUpper)

Variants == {"cli", "web", "vercel"}

(***************************************************************************)
(* State of one analyzeWebsite call                                        *)
(***************************************************************************)
VARIABLES
    variant,          \* which of the three implementations runs
    site,             \* the page under analysis
    pc,               \* "observe", "scanned", "done" or "failed"
    observed,         \* every request event so far, in arrival order
    networkRequests,  \* recorded request URLs, in arrival order
    summary,          \* counters gtm, ga, other
    gtmIds,           \* Set of GTM container ids
    ga4Ids,           \* Set of GA4 measurement ids
    pageContent,      \* page HTML once read ("" stands for null)
    consentToolStates,\* what the consent tool of the page reports at run time
    result,           \* the record analyzeWebsite returns
    \* state of the server process and of one POST /analyze
    body,             \* req.body
    phase,            \* "idle", "loop" or "responded"
    analyses,         \* what each analyzeWebsite call of the loop returned or threw,
                      \* one per URL the loop has gone through
    results,          \* the results array
    totalSheetsSuccess,
    totalSheetsErrors,
    response,         \* status and JSON body sent
    sheetsEnabled,    \* config.googleSheets.enabled
    headerInitialized,
    sheet,            \* rows of the spreadsheet
    browser,          \* the puppeteer browser of the request: whether it is open,
                      \* calls of puppeteer.launch and of browser.close so far
    appendCalls,      \* the appendResultRow calls so far: website, whether
                      \* the append went through
    calls             \* per concurrent request: which Sheets API call its running
                      \* appendResultRow awaits and how many calls it has finished

analysisVars ==
    <<site, pc, observed, networkRequests, summary, gtmIds, ga4Ids, pageContent,
      consentToolStates, result>>

serverVars ==
    <<body, phase, analyses, results, totalSheetsSuccess, totalSheetsErrors, response,
      sheetsEnabled, headerInitialized, sheet, browser, appendCalls,
      calls>>

vars == <<variant, analysisVars, serverVars>>

NoResult == [pending |-> TRUE]

\* the /analyze requests that run at the same time
Callers == {1, 2}

\* the locals of analyzeWebsite at its start
AnalysisInit ==
    /\ pc = "observe"
    /\ observed = <<>>
    /\ networkRequests = <<>>
    /\ summary = [gtm |-> 0, ga |-> 0, other |-> 0]
    /\ gtmIds = {}
    /\ ga4Ids = {}
    /\ pageContent = ""
    /\ consentToolStates = [tool |-> "Unknown"]
    /\ result = NoResult

\* the server process after start-up, no request received
ServerInit ==
    /\ body = [kind |-> "missing", urls |-> <<>>]
    /\ phase = "idle"
    /\ analyses = <<>>
    /\ results = <<>>
    /\ totalSheetsSuccess = 0
    /\ totalSheetsErrors = 0
    /\ response = [status |-> 0]
    /\ headerInitialized = FALSE
    /\ sheet = <<>>
    /\ browser = [open |-> FALSE, launches |-> 0, closes |-> 0]
    /\ appendCalls = <<>>
    /\ calls = [c \in Callers |-> [pc |-> "idle", finished |-> 0]]

Init ==
    /\ variant \in Variants
    /\ site \in SitePool
    /\ AnalysisInit
    /\ ServerInit
    /\ sheetsEnabled = FALSE

(***************************************************************************)
(* page.on('request')                                                      *)
(***************************************************************************)
\* ids the googletagmanager.com branch adds to gtmIds
GtmIdsOfRequest(url) ==
    (IF gtmMatch1(url) # NoMatch THEN {gtmMatch1(url)} ELSE {})
    \cup (IF gtmMatch2(url) # NoMatch THEN {gtmMatch2(url)} ELSE {})
    \cup {id \in gtmMatch3(url) : SubSeq(id, 1, 4) = "GTM-"}

\* the handler without its custom endpoint branch
RequestBranchNoCustom(url) ==
    IF Includes(url, "googletagmanager.com") THEN "gtm"
    ELSE IF Includes(url, "google-analytics.com") THEN "ga"
    ELSE "other"

\* the handler with its custom endpoint branch tried before the
\* google-analytics.com branch
RequestBranchCustomFirst(url) ==
    IF Includes(url, "googletagmanager.com") THEN "gtm"
    ELSE IF \/ Includes(url, "/g/collect")
            \/ Includes(url, "analytics.")
            \/ tidMatch(url) # NoMatch
         THEN (IF ga4Match(url) # NoMatch THEN "custom" ELSE "other")
    ELSE IF Includes(url, "google-analytics.com") THEN "ga"
    ELSE "other"

\* the handler with a custom endpoint branch that does not look for tid=G-...
RequestBranchNoTidCheck(url) ==
    IF Includes(url, "googletagmanager.com") THEN "gtm"
    ELSE IF Includes(url, "google-analytics.com") THEN "ga"
    ELSE IF \/ Includes(url, "/g/collect")
            \/ Includes(url, "analytics.")
            \/ tidMatch(url) # NoMatch
         THEN "custom"
    ELSE "other"

\* the branch of the handler that applies to url
RequestBranch(url) ==
    IF Includes(url, "googletagmanager.com") THEN "gtm"
    ELSE IF Includes(url, "google-analytics.com") THEN "ga"
    ELSE IF \/ Includes(url, "/g/collect")
            \/ Includes(url, "analytics.")
            \/ tidMatch(url) # NoMatch
         THEN (IF ga4Match(url) # NoMatch THEN "custom" ELSE "other")
    ELSE "other"

\* what the handler's tests and regular expressions give on each URL of the
\* pool (computed once)
UrlMatches ==
    [u \in UrlPool |->
        [ branch |-> RequestBranch(u),
          gtmIds |-> GtmIdsOfRequest(u),
          ga4FromGtmMatch |-> ga4FromGtmMatch(u),
          ga4Match |-> ga4Match(u) ]]

\* the handler recording the URL of every request, whatever its branch
HandleRequestRecordsAll(st, url) ==
    LET Body(branch) ==
    [ summary |-> CASE branch = "gtm" -> [st.summary EXCEPT !.gtm = @ + 1]
                    [] branch \in {"ga", "custom"} -> [st.summary EXCEPT !.ga = @ + 1]
                    [] OTHER -> [st.summary EXCEPT !.other = @ + 1],
      networkRequests |-> Append(st.networkRequests, url),
      gtmIds |-> IF branch = "gtm" THEN st.gtmIds \cup UrlMatches[url].gtmIds ELSE st.gtmIds,
      ga4Ids |-> CASE branch = "gtm" ->
                        (IF UrlMatches[url].ga4FromGtmMatch # NoMatch
                         THEN st.ga4Ids \cup {UrlMatches[url].ga4FromGtmMatch} ELSE st.ga4Ids)
                   [] branch = "ga" ->
                        (IF UrlMatches[url].ga4Match # NoMatch
                         THEN st.ga4Ids \cup {UrlMatches[url].ga4Match} ELSE st.ga4Ids)
                   [] branch = "custom" -> st.ga4Ids \cup {UrlMatches[url].ga4Match}
                   [] OTHER -> st.ga4Ids ]
    IN  Body(UrlMatches[url].branch)

\* the body of the handler: the accumulators st after one request for url
HandleRequest(st, url) ==
    LET Body(branch) ==
    [ summary |-> CASE branch = "gtm" -> [st.summary EXCEPT !.gtm = @ + 1]
                    [] branch \in {"ga", "custom"} -> [st.summary EXCEPT !.ga = @ + 1]
                    [] OTHER -> [st.summary EXCEPT !.other = @ + 1],
      networkRequests |-> IF branch = "other" THEN st.networkRequests
                          ELSE Append(st.networkRequests, url),
      gtmIds |-> IF branch = "gtm" THEN st.gtmIds \cup UrlMatches[url].gtmIds ELSE st.gtmIds,
      ga4Ids |-> CASE branch = "gtm" ->
                        (IF UrlMatches[url].ga4FromGtmMatch # NoMatch
                         THEN st.ga4Ids \cup {UrlMatches[url].ga4FromGtmMatch} ELSE st.ga4Ids)
                   [] branch = "ga" ->
                        (IF UrlMatches[url].ga4Match # NoMatch
                         THEN st.ga4Ids \cup {UrlMatches[url].ga4Match} ELSE st.ga4Ids)
                   [] branch = "custom" -> st.ga4Ids \cup {UrlMatches[url].ga4Match}
                   [] OTHER -> st.ga4Ids ]
    IN  Body(UrlMatches[url].branch)

\* the accumulators of the running analysis
Accumulators ==
    [summary |-> summary, networkRequests |-> networkRequests,
     gtmIds |-> gtmIds, ga4Ids |-> ga4Ids]

\* the handler skipping a URL it has seen before
RequestDeduplicated(url) ==
    /\ pc \in {"observe", "scanned"}
    /\ Len(observed) < MaxRequests
    /\ observed' = Append(observed, url)
    /\ \E st \in {IF \E i \in 1..Len(observed) : observed[i] = url
                   THEN Accumulators
                   ELSE HandleRequest(Accumulators, url)} :
       /\ summary' = st.summary
       /\ networkRequests' = st.networkRequests
       /\ gtmIds' = st.gtmIds
       /\ ga4Ids' = st.ga4Ids
    /\ UNCHANGED <<variant, site, pc, pageContent, consentToolStates, result, serverVars>>

Request(url) ==
    /\ pc \in {"observe", "scanned"}
    /\ Len(observed) < MaxRequests
    /\ observed' = Append(observed, url)
    /\ \E st \in {HandleRequest(Accumulators, url)} :
       /\ summary' = st.summary
       /\ networkRequests' = st.networkRequests
       /\ gtmIds' = st.gtmIds
       /\ ga4Ids' = st.ga4Ids
    /\ UNCHANGED <<variant, site, pc, pageContent, consentToolStates, result, serverVars>>

(***************************************************************************)
(* Scans of the page content and of the window objects                     *)
(***************************************************************************)
\* the page.evaluate that collects GTM ids from google_tag_manager keys,
\* the serialized dataLayer and (cli, web) the script tags
gtmFromWindow(v, s) ==
    {key \in s.tagManagerKeys : FirstMatch(key, 1, {"GTM-"}, FALSE, AlnumUpper) # 0}
    \cup gtmInlineMatches(s.dataLayer)
    \cup (IF v = "vercel" THEN {}
          ELSE UNION {gtmInlineMatches(script) : script \in s.scripts})

\* String.prototype.toLowerCase
ToLower(c) ==
    IF \E k \in 1..Len(UpperSeq) : CharAt(UpperSeq, k) = c
    THEN CharAt(LowerSeq, CHOOSE k \in 1..Len(UpperSeq) : CharAt(UpperSeq, k) = c)
    ELSE c

RECURSIVE toLowerCase(_)
toLowerCase(str) ==
    IF str = "" THEN ""
    ELSE ToLower(CharAt(str, 1)) \o toLowerCase(SubSeq(str, 2, Len(str)))

\* the page.evaluate that asks the consent tool of the page: the tool field
\* of its result (the localStorage branch exists in cli and web only)
consentToolReport(v, s) ==
    [ tool |->
        IF s.Cookiebot THEN "Cookiebot"
        ELSE IF s.OneTrust THEN "OneTrust"
        ELSE IF /\ v # "vercel"
                /\ \E key \in s.storageKeys :
                      \/ Includes(toLowerCase(key), "consent")
                      \/ Includes(toLowerCase(key), "cookie")
                      \/ Includes(toLowerCase(key), "gdpr")
             THEN "LocalStorage"
        ELSE "Unknown" ]

\* the cli's later pass over the dataLayer items
dataLayerInfoGtmIds(s) == gtmInlineMatches(s.dataLayer)

\* the GTM ids the scans of variant v find on page s: the cli's pass over
\* the page content, gtmFromWindow and the cli's dataLayerInfo
ScanGtmIds(v, s, evalOk) ==
    (IF v = "cli" /\ s.content # "" THEN gtmInlineMatches(s.content) ELSE {})
    \cup (IF evalOk THEN gtmFromWindow(v, s) ELSE {})
    \cup (IF evalOk /\ v = "cli" THEN dataLayerInfoGtmIds(s) ELSE {})

\* the scans replacing gtmIds by what they found
ScanPageOverwrites(evalOk) ==
    /\ pc = "observe"
    /\ variant = "vercel" => evalOk
    /\ pageContent' = IF variant = "cli" THEN site.content ELSE pageContent
    /\ gtmIds' = ScanGtmIds(variant, site, evalOk)
    /\ consentToolStates' = IF evalOk THEN consentToolReport(variant, site) ELSE consentToolStates
    /\ pc' = "scanned"
    /\ UNCHANGED <<variant, site, observed, networkRequests, summary, ga4Ids, result, serverVars>>

\* the scans also collecting the GA4 ids written in the page content
ScanPageAddsGa4Ids(evalOk) ==
    /\ pc = "observe"
    /\ variant = "vercel" => evalOk
    /\ pageContent' = IF variant = "cli" THEN site.content ELSE pageContent
    /\ gtmIds' = gtmIds \cup ScanGtmIds(variant, site, evalOk)
    /\ ga4Ids' = ga4Ids \cup AllMatches(site.content, 1, "G-", FALSE, AlnumUpper)
    /\ consentToolStates' = IF evalOk THEN consentToolReport(variant, site) ELSE consentToolStates
    /\ pc' = "scanned"
    /\ UNCHANGED <<variant, site, observed, networkRequests, summary, result, serverVars>>

\* evalOk: the page.evaluate calls returned (they sit in their own try/catch
\* in cli and web; in vercel a throw is the load error path)
ScanPage(evalOk) ==
    /\ pc = "observe"
    /\ variant = "vercel" => evalOk
    /\ pageContent' = IF variant = "cli" THEN site.content ELSE pageContent
    /\ gtmIds' = gtmIds \cup ScanGtmIds(variant, site, evalOk)
    /\ consentToolStates' = IF evalOk THEN consentToolReport(variant, site) ELSE consentToolStates
    /\ pc' = "scanned"
    /\ UNCHANGED <<variant, site, observed, networkRequests, summary, ga4Ids, result, serverVars>>

\* what the catch of the observation block returns next to the website
LoadErrorRecord == [error |-> "load error", summary |-> "null"]

\* the catch of the observation block returning what was collected so far
LoadErrorKeepsCollected ==
    /\ pc \in {"observe", "scanned"}
    /\ pc' = "failed"
    /\ result' = [website |-> site.website, error |-> "load error", summary |-> summary,
                  gtmIds |-> gtmIds, ga4Ids |-> ga4Ids]
    /\ UNCHANGED <<variant, site, observed, networkRequests, summary, gtmIds, ga4Ids, pageContent,
                   consentToolStates, serverVars>>

\* the catch of the observation block: the record of a failed load
LoadError ==
    /\ pc \in {"observe", "scanned"}
    /\ pc' = "failed"
    /\ result' = [website |-> site.website] @@ LoadErrorRecord
    /\ UNCHANGED <<variant, site, observed, networkRequests, summary, gtmIds, ga4Ids, pageContent,
                   consentToolStates, serverVars>>

(***************************************************************************)
(* Classification after the observation block                              *)
(***************************************************************************)
gtmLoadedInitially(reqs) ==
    \E i \in 1..Len(reqs) : Includes(reqs[i], "googletagmanager.com/gtm.js")

\* gaCookielessHits looking for its two substrings in any two URLs
gaCookielessHitsAnyTwo(reqs) ==
    /\ \E i \in 1..Len(reqs) : Includes(reqs[i], "google-analytics.com")
    /\ \E i \in 1..Len(reqs) : Includes(reqs[i], "gcs=G100")

gaCookielessHits(reqs) ==
    \E i \in 1..Len(reqs) :
        Includes(reqs[i], "google-analytics.com") /\ Includes(reqs[i], "gcs=G100")

\* the loop over networkRequests that sets consentModeDetected and
\* consentModeVersion, leaving at the first URL with a gcs= parameter
RECURSIVE ConsentModeFrom(_, _)
ConsentModeFrom(reqs, i) ==
    IF i > Len(reqs) THEN [detected |-> FALSE, version |-> "Unknown"]
    ELSE IF Includes(reqs[i], "gcs=G100") \/ Includes(reqs[i], "gcs=G110")
         THEN [detected |-> TRUE, version |-> "v2"]
    ELSE IF Includes(reqs[i], "gcs=")
         THEN [detected |-> TRUE, version |-> "v1"]
    ELSE ConsentModeFrom(reqs, i + 1)

\* the consent mode detection looking at the first recorded URL only
consentModeFirstUrlOnly(reqs) == ConsentModeFrom(SubSeq(reqs, 1, Min({1, Len(reqs)})), 1)

consentMode(reqs) == ConsentModeFrom(reqs, 1)

\* consentTool with the tests for onetrust.com and trustarc.com exchanged
consentToolSwapped(content) ==
    IF content # "" /\ Includes(content, "cookiebot.com") THEN "Cookiebot"
    ELSE IF content # "" /\ Includes(content, "trustarc.com") THEN "TrustArc"
    ELSE IF content # "" /\ Includes(content, "onetrust.com") THEN "OneTrust"
    ELSE IF content # "" /\ Includes(content, "quantcast.mgr") THEN "Quantcast"
    ELSE "Unknown"

consentTool(content) ==
    IF content # "" /\ Includes(content, "cookiebot.com") THEN "Cookiebot"
    ELSE IF content # "" /\ Includes(content, "onetrust.com") THEN "OneTrust"
    ELSE IF content # "" /\ Includes(content, "trustarc.com") THEN "TrustArc"
    ELSE IF content # "" /\ Includes(content, "quantcast.mgr") THEN "Quantcast"
    ELSE "Unknown"

consentTypes ==
    << "ad_storage", "analytics_storage", "functionality_storage",
       "personalization_storage", "security_storage" >>

\* consentStates initialised with every category unknown
AllUnknownStates ==
    [t \in {consentTypes[i] : i \in 1..Len(consentTypes)} |-> "unknown"]

\* consentStates = {}
EmptyStates == [t \in {} |-> "unknown"]

\* /[?&]gcd=([^&]+)/
gcdMatch(url) == Capture(url, {"?gcd=", "&gcd="}, 5, 5, FALSE, NotAmp)

\* StateOfCode with the codes of granted and denied exchanged
StateOfCodeSwapped(code) ==
    IF code = "p2" THEN "granted"
    ELSE IF code = "p3" THEN "denied"
    ELSE IF code = "l1" THEN "not set"
    ELSE "unknown"

\* state of one two-character code
StateOfCode(code) ==
    IF code = "p3" THEN "granted"
    ELSE IF code = "p2" THEN "denied"
    ELSE IF code = "l1" THEN "not set"
    ELSE "unknown"

\* the inner loop: i counts the consent types (from 0), idx the position in
\* the token (from 0); acc is consentStates so far
RECURSIVE DecodeGcd(_, _, _, _)
DecodeGcd(gcd, i, idx, acc) ==
    IF i < Len(consentTypes) /\ idx + 1 < Len(gcd)
    THEN DecodeGcd(gcd, i + 1, idx + 2,
                   (consentTypes[i + 1] :> StateOfCode(SubSeq(gcd, idx + 1, idx + 2))) @@ acc)
    ELSE acc

\* the outer loop without its break: every matching URL is decoded into the
\* same object, later URLs overwriting earlier ones
RECURSIVE ConsentStatesNoBreak(_, _)
ConsentStatesNoBreak(reqs, k) ==
    IF k > Len(reqs) THEN EmptyStates
    ELSE ConsentStatesNoBreak(reqs, k + 1)
         @@ (IF gcdMatch(reqs[k]) # NoMatch
             THEN DecodeGcd(gcdMatch(reqs[k]), 0, 2, EmptyStates)
             ELSE EmptyStates)

\* the outer loop: the first URL that matches gcdRegex is decoded, then break
RECURSIVE ConsentStatesFrom(_, _)
ConsentStatesFrom(reqs, k) ==
    IF k > Len(reqs) THEN EmptyStates
    ELSE IF gcdMatch(reqs[k]) # NoMatch
         THEN DecodeGcd(gcdMatch(reqs[k]), 0, 2, EmptyStates)
    ELSE ConsentStatesFrom(reqs, k + 1)

\* consentMode.states of the result: decoded by the cli, {} in the servers
consentStates(v, reqs) ==
    IF v = "cli" THEN ConsentStatesFrom(reqs, 1) ELSE EmptyStates

hasCustomAnalytics(reqs) ==
    \E i \in 1..Len(reqs) :
        \/ Includes(reqs[i], "/g/collect") /\ ~Includes(reqs[i], "google-analytics.com")
        \/ Includes(reqs[i], "analytics.")
        \/ tidMatch(reqs[i]) # NoMatch /\ ~Includes(reqs[i], "google-analytics.com")

HasGtagJs(reqs) ==
    \E i \in 1..Len(reqs) : Includes(reqs[i], "googletagmanager.com/gtag/js")

HasGoogleAnalytics(reqs) ==
    \E i \in 1..Len(reqs) : Includes(reqs[i], "google-analytics.com")

\* trackingType with the first two checks in the opposite order
trackingTypeSwapped(reqs, sum, ga4) ==
    IF hasCustomAnalytics(reqs) /\ ga4 # {} THEN "GA4 Server-Side (custom endpoint)"
    ELSE IF gtmLoadedInitially(reqs) THEN "GTM (client-side)"
    ELSE IF HasGtagJs(reqs) /\ ga4 # {} THEN "GA4 gtag.js (client-side)"
    ELSE IF HasGoogleAnalytics(reqs) THEN "Google Analytics (client-side)"
    ELSE IF sum.gtm = 0 /\ sum.ga = 0 /\ ga4 = {}
         THEN "Possibly server-side (no GTM/GA requests detected)"
    ELSE IF ga4 # {} /\ sum.ga = 0 THEN "GA4 loaded but consent-blocked"
    ELSE "Unknown"

\* trackingType without the check for "no GTM/GA requests"
trackingTypeNoServerSide(reqs, sum, ga4) ==
    IF gtmLoadedInitially(reqs) THEN "GTM (client-side)"
    ELSE IF hasCustomAnalytics(reqs) /\ ga4 # {} THEN "GA4 Server-Side (custom endpoint)"
    ELSE IF HasGtagJs(reqs) /\ ga4 # {} THEN "GA4 gtag.js (client-side)"
    ELSE IF HasGoogleAnalytics(reqs) THEN "Google Analytics (client-side)"
    ELSE IF ga4 # {} /\ sum.ga = 0 THEN "GA4 loaded but consent-blocked"
    ELSE "Unknown"

\* trackingType taking any googletagmanager.com request for a GTM load
trackingTypeGtmByCounter(reqs, sum, ga4) ==
    IF sum.gtm > 0 THEN "GTM (client-side)"
    ELSE IF hasCustomAnalytics(reqs) /\ ga4 # {} THEN "GA4 Server-Side (custom endpoint)"
    ELSE IF HasGtagJs(reqs) /\ ga4 # {} THEN "GA4 gtag.js (client-side)"
    ELSE IF HasGoogleAnalytics(reqs) THEN "Google Analytics (client-side)"
    ELSE IF sum.gtm = 0 /\ sum.ga = 0 /\ ga4 = {}
         THEN "Possibly server-side (no GTM/GA requests detected)"
    ELSE IF ga4 # {} /\ sum.ga = 0 THEN "GA4 loaded but consent-blocked"
    ELSE "Unknown"

trackingType(reqs, sum, ga4) ==
    IF gtmLoadedInitially(reqs) THEN "GTM (client-side)"
    ELSE IF hasCustomAnalytics(reqs) /\ ga4 # {} THEN "GA4 Server-Side (custom endpoint)"
    ELSE IF HasGtagJs(reqs) /\ ga4 # {} THEN "GA4 gtag.js (client-side)"
    ELSE IF HasGoogleAnalytics(reqs) THEN "Google Analytics (client-side)"
    ELSE IF sum.gtm = 0 /\ sum.ga = 0 /\ ga4 = {}
         THEN "Possibly server-side (no GTM/GA requests detected)"
    ELSE IF ga4 # {} /\ sum.ga = 0 THEN "GA4 loaded but consent-blocked"
    ELSE "Unknown"

\* the record analyzeWebsite returns after a successful observation (next
\* to the website), from
\* the accumulators st, the page content and the consent tool report cts
ResultRecord(v, content, st, cts) ==
    [ summary |-> st.summary,
      gtmIds |-> st.gtmIds,
      ga4Ids |-> st.ga4Ids,
      consentMode |->
        [ detected |-> consentMode(st.networkRequests).detected,
          version |-> consentMode(st.networkRequests).version,
          tool |-> consentTool(content),
          states |-> consentStates(v, st.networkRequests) ],
      trackingType |-> trackingType(st.networkRequests, st.summary, st.ga4Ids),
      gtmLoadedInitially |-> gtmLoadedInitially(st.networkRequests),
      gaCookielessHits |-> gaCookielessHits(st.networkRequests),
      networkRequests |-> Len(st.networkRequests),
      consentToolStates |-> cts,
      error |-> "null" ]

Classify ==
    /\ pc = "scanned"
    /\ pageContent' = IF pageContent = "" THEN site.content ELSE pageContent
    /\ result' = [website |-> site.website]
                    @@ ResultRecord(variant, pageContent', Accumulators, consentToolStates)
    /\ pc' = "done"
    /\ UNCHANGED <<variant, site, observed, networkRequests, summary, gtmIds, ga4Ids,
                   consentToolStates, serverVars>>

\* the accumulators at the start of analyzeWebsite
InitialAccumulators ==
    [summary |-> [gtm |-> 0, ga |-> 0, other |-> 0], networkRequests |-> <<>>,
     gtmIds |-> {}, ga4Ids |-> {}]

\* the accumulators after the request events reqs, in that order
RECURSIVE FoldRequests(_, _)
FoldRequests(reqs, st) ==
    IF reqs = <<>> THEN st
    ELSE FoldRequests(Tail(reqs), HandleRequest(st, Head(reqs)))

\* one whole successful call of variant v on page s that issues the
\* requests reqs: handler, scans, classification
analyzeWebsite(v, s, reqs, evalOk) ==
    LET st == FoldRequests(reqs, InitialAccumulators)
    IN  [website |-> s.website]
        @@ ResultRecord(v, s.content,
                        [st EXCEPT !.gtmIds = @ \cup ScanGtmIds(v, s, evalOk)],
                        IF evalOk THEN consentToolReport(v, s) ELSE [tool |-> "Unknown"])

Next ==
    \/ \E url \in UrlPool : Request(url)
    \/ \E evalOk \in BOOLEAN : ScanPage(evalOk)
    \/ LoadError
    \/ Classify

Spec == Init /\ [][Next]_vars

(***************************************************************************)
(* POST /analyze of web-server.js and vercel-server.js                     *)
(***************************************************************************)
ServerVariants == {"web", "vercel"}

\* the k-th URL a client may submit
SiteUrl(k) == "https://site" \o CharAt(DigitSeq, k + 1) \o ".example"

\* urls lists of valid URLs, and lists with an entry new URL() rejects
ValidUrlLists == {[k \in 1..n |-> SiteUrl(k)] : n \in 1..MaxUrls}

InvalidUrlLists == { <<"not a url">>, <<SiteUrl(1), "http://">> }

\* req.body: urls absent, urls a string, urls an array
Bodies ==
    { [kind |-> "missing", urls |-> <<>>], [kind |-> "string", urls |-> <<>>],
      [kind |-> "array", urls |-> <<>>] }
    \cup {[kind |-> "array", urls |-> l] : l \in ValidUrlLists \cup InvalidUrlLists}

SchemeChars == AlnumAnyCase \cup {"+", "-", "."}

\* new URL(u) does not throw: u starts with a scheme and a colon, and an
\* http(s) URL has a host
IsValidUrl(u) ==
    \E c \in 2..Len(u) :
        /\ CharAt(u, c) = ":"
        /\ CharAt(u, 1) \in CharsOf(LowerSeq) \cup CharsOf(UpperSeq)
        /\ \A k \in 1..(c - 1) : CharAt(u, k) \in SchemeChars
        /\ toLowerCase(SubSeq(u, 1, c - 1)) \in {"http", "https"}
             => \E k \in (c + 1)..Len(u) : CharAt(u, k) \notin {"/", "\\"}

\* the validation looking at the first URL only
invalidUrlsFirstOnly(urls) == {k \in 1..Min({1, Len(urls)}) : ~IsValidUrl(urls[k])}

invalidUrls(urls) == {k \in 1..Len(urls) : ~IsValidUrl(urls[k])}

\* a page and its requests for the analyses the loop runs
SampleSite == CHOOSE s \in SitePool : s.Cookiebot

SampleRequests ==
    << "https://www.googletagmanager.com/gtm.js?id=GTM-ABC123",
       "https://www.google-analytics.com/g/collect?tid=G-XYZ999&gcs=G100&gcd=13p3p3p2p5l1" >>

\* what a call of analyzeWebsite gives the loop: a result, the record of a
\* failed load, or an exception (the loop puts the URL it passed as website)
AnalysisOutcomes ==
    [v \in ServerVariants |->
        { analyzeWebsite(v, SampleSite, SampleRequests, TRUE),
          LoadErrorRecord,
          [thrown |-> "newPage failed"] }]

AllOutcomes == UNION {AnalysisOutcomes[v] : v \in ServerVariants}

\* the loop without the limit of the vercel build
urlsToProcessAll(v, urls) == urls

\* the URLs the loop goes through: the first three in the vercel build
urlsToProcess(v, urls) ==
    IF v = "vercel" THEN SubSeq(urls, 1, Min({3, Len(urls)})) ELSE urls

\* property f of a JavaScript object
Field(r, f) == IF f \in DOMAIN r THEN r[f] ELSE "undefined"

\* the row appendResultRow writes (without its timestamp)
ResultRow(r) ==
    [ website |-> r.website,
      status |-> IF r.error # "null" THEN "Error" ELSE "Success",
      gtmCount |-> IF "gtmIds" \in DOMAIN r THEN Cardinality(r.gtmIds) ELSE 0,
      gtmIds |-> IF "gtmIds" \in DOMAIN r THEN r.gtmIds ELSE {"None"},
      ga4Ids |-> IF "ga4Ids" \in DOMAIN r THEN r.ga4Ids ELSE {"None"},
      consentMode |-> IF "consentMode" \in DOMAIN r
                      THEN (IF r.consentMode.detected THEN "Yes " ELSE "No ") \o r.consentMode.version
                      ELSE "Unknown",
      consentTool |-> IF "consentMode" \in DOMAIN r THEN r.consentMode.tool ELSE "Unknown",
      trackingType |-> IF "trackingType" \in DOMAIN r THEN r.trackingType ELSE "Unknown",
      gtmLoadedInitially |-> IF "gtmLoadedInitially" \in DOMAIN r /\ r.gtmLoadedInitially
                             THEN "Yes" ELSE "No",
      gaCookielessHits |-> IF "gaCookielessHits" \in DOMAIN r /\ r.gaCookielessHits
                           THEN "Yes" ELSE "No",
      networkRequests |-> IF "networkRequests" \in DOMAIN r THEN r.networkRequests ELSE 0,
      error |-> IF r.error # "null" THEN r.error ELSE "" ]

\* resultData not relaying the error of the analysis
resultDataNoError(r, sheetsSuccess, sheetsError) ==
    [ website |-> r.website,
      analysis |->
        [ gtmContainers |-> IF "gtmIds" \in DOMAIN r THEN Cardinality(r.gtmIds) ELSE 0,
          gtmIds |-> IF "gtmIds" \in DOMAIN r THEN r.gtmIds ELSE {},
          ga4Ids |-> IF "ga4Ids" \in DOMAIN r THEN r.ga4Ids ELSE {},
          consentMode |-> IF "consentMode" \in DOMAIN r
                          THEN [ detected |-> r.consentMode.detected,
                                 version |-> r.consentMode.version,
                                 tool |-> r.consentMode.tool ]
                          ELSE [null |-> TRUE],
          trackingType |-> Field(r, "trackingType"),
          gtmLoadedInitially |-> Field(r, "gtmLoadedInitially"),
          gaCookielessHits |-> Field(r, "gaCookielessHits"),
          networkRequests |-> Field(r, "networkRequests"),
          summary |-> Field(r, "summary"),
          consentToolStates |-> Field(r, "consentToolStates") ],
      googleSheets |-> [enabled |-> sheetsEnabled, success |-> sheetsSuccess, error |-> sheetsError],
      error |-> "null" ]

\* the entry of the results array for an analysis that returned r
resultData(r, sheetsSuccess, sheetsError) ==
    [ website |-> r.website,
      analysis |->
        [ gtmContainers |-> IF "gtmIds" \in DOMAIN r THEN Cardinality(r.gtmIds) ELSE 0,
          gtmIds |-> IF "gtmIds" \in DOMAIN r THEN r.gtmIds ELSE {},
          ga4Ids |-> IF "ga4Ids" \in DOMAIN r THEN r.ga4Ids ELSE {},
          consentMode |-> IF "consentMode" \in DOMAIN r
                          THEN [ detected |-> r.consentMode.detected,
                                 version |-> r.consentMode.version,
                                 tool |-> r.consentMode.tool ]
                          ELSE [null |-> TRUE],
          trackingType |-> Field(r, "trackingType"),
          gtmLoadedInitially |-> Field(r, "gtmLoadedInitially"),
          gaCookielessHits |-> Field(r, "gaCookielessHits"),
          networkRequests |-> Field(r, "networkRequests"),
          summary |-> Field(r, "summary"),
          consentToolStates |-> Field(r, "consentToolStates") ],
      googleSheets |-> [enabled |-> sheetsEnabled, success |-> sheetsSuccess, error |-> sheetsError],
      error |-> r.error ]

\* the entry pushed by the catch of one loop iteration
thrownData(url, message) ==
    [ website |-> url,
      error |-> message,
      analysis |-> [null |-> TRUE],
      googleSheets |-> [enabled |-> sheetsEnabled, success |-> FALSE, error |-> message] ]

\* the header row ensureHeaderRow writes
HeaderRow == [header |-> <<"Website", "Status", "GTM Containers", "GTM IDs", "GA4 IDs">>]

\* app.post('/analyze') up to the start of the loop: validation of the body
\* and the browser launch
PostAnalyze(b, launchOk) ==
    /\ phase = "idle"
    /\ body' = b
    /\ IF b.kind # "array" \/ Len(b.urls) = 0
       THEN /\ response' = [status |-> 400, error |-> "At least one URL is required"]
            /\ phase' = "responded"
       ELSE IF invalidUrls(b.urls) # {}
       THEN /\ response' = [status |-> 400, error |-> "Invalid URLs found",
                             urls |-> {b.urls[k] : k \in invalidUrls(b.urls)}]
            /\ phase' = "responded"
       ELSE IF ~launchOk
       THEN /\ response' = [status |-> 500, error |-> "Failed to analyze websites"]
            /\ phase' = "responded"
       ELSE /\ response' = response
            /\ phase' = "loop"
    /\ browser' = IF b.kind # "array" \/ Len(b.urls) = 0 \/ invalidUrls(b.urls) # {}
                  THEN browser
                  ELSE [browser EXCEPT !.launches = @ + 1, !.open = launchOk]
    /\ UNCHANGED <<variant, analysisVars, analyses, results, totalSheetsSuccess,
                   totalSheetsErrors, sheetsEnabled, headerInitialized, sheet, appendCalls,
                   calls>>

\* the loop exporting the rows of successful analyses only
exportsRowSuccessOnly(o) ==
    sheetsEnabled /\ "thrown" \notin DOMAIN o /\ o.error = "null"

\* the loop calls appendResultRow for o and the call reaches the Sheets API:
\* analyzeWebsite returned (it did not throw) and getSheetsClient gives a client
exportsRow(o) == sheetsEnabled /\ "thrown" \notin DOMAIN o

\* the loop without the try/catch of its iterations: an analysis that throws
\* ends the request in the outer catch
AnalyzeNextThrowEscapes(o, headerOk, appendOk) ==
    /\ phase = "loop"
    /\ o \in AnalysisOutcomes[variant]
    /\ Len(analyses) < Len(urlsToProcess(variant, body.urls))
    /\ analyses' = Append(analyses, o)
    /\ LET url == urlsToProcess(variant, body.urls)[Len(analyses) + 1]
           r == [website |-> url] @@ o
           export == exportsRow(o)
           withHeader == IF ~headerInitialized /\ headerOk /\ sheet = <<>>
                         THEN <<HeaderRow>> ELSE sheet
       IN  /\ results' = IF "thrown" \in DOMAIN o THEN results
                         ELSE Append(results,
                                resultData(r, export /\ appendOk,
                                   IF export /\ ~appendOk THEN "append failed" ELSE "null"))
           /\ phase' = IF "thrown" \in DOMAIN o THEN "responded" ELSE phase
           /\ response' = IF "thrown" \in DOMAIN o
                          THEN [status |-> 500, error |-> "Failed to analyze websites"]
                          ELSE response
           /\ headerInitialized' = (headerInitialized \/ (export /\ headerOk))
           /\ sheet' = IF ~export THEN sheet
                       ELSE IF appendOk THEN Append(withHeader, ResultRow(r))
                       ELSE withHeader
           /\ totalSheetsSuccess' = totalSheetsSuccess + (IF export /\ appendOk THEN 1 ELSE 0)
           /\ totalSheetsErrors' = totalSheetsErrors + (IF export /\ ~appendOk THEN 1 ELSE 0)
           /\ appendCalls' = IF export
                             THEN Append(appendCalls, [website |-> url, ok |-> appendOk])
                             ELSE appendCalls
    /\ UNCHANGED <<variant, analysisVars, body, sheetsEnabled, browser, calls>>

\* one iteration of the loop: analyzeWebsite gives o; appendResultRow with
\* its ensureHeaderRow (headerOk: the read and write of A1 went through,
\* appendOk: the append went through); the entry pushed to results
AnalyzeNext(o, headerOk, appendOk) ==
    /\ phase = "loop"
    /\ o \in AnalysisOutcomes[variant]
    /\ Len(analyses) < Len(urlsToProcess(variant, body.urls))
    /\ analyses' = Append(analyses, o)
    /\ LET url == urlsToProcess(variant, body.urls)[Len(analyses) + 1]
           r == [website |-> url] @@ o
           export == exportsRow(o)
           withHeader == IF ~headerInitialized /\ headerOk /\ sheet = <<>>
                         THEN <<HeaderRow>> ELSE sheet
       IN  /\ results' = Append(results,
                 IF "thrown" \in DOMAIN o THEN thrownData(url, o.thrown)
                 ELSE resultData(r, export /\ appendOk,
                                 IF export /\ ~appendOk THEN "append failed" ELSE "null"))
           /\ headerInitialized' = (headerInitialized \/ (export /\ headerOk))
           /\ sheet' = IF ~export THEN sheet
                       ELSE IF appendOk THEN Append(withHeader, ResultRow(r))
                       ELSE withHeader
           /\ totalSheetsSuccess' = totalSheetsSuccess + (IF export /\ appendOk THEN 1 ELSE 0)
           /\ totalSheetsErrors' = totalSheetsErrors + (IF export /\ ~appendOk THEN 1 ELSE 0)
           /\ appendCalls' = IF export
                             THEN Append(appendCalls, [website |-> url, ok |-> appendOk])
                             ELSE appendCalls
    /\ UNCHANGED <<variant, analysisVars, body, phase, response, sheetsEnabled, browser,
                   calls>>

\* after the loop: browser.close() and res.json(responseData)
Respond(closeOk) ==
    /\ phase = "loop"
    /\ Len(analyses) = Len(urlsToProcess(variant, body.urls))
    /\ phase' = "responded"
    /\ response' =
         IF ~closeOk THEN [status |-> 500, error |-> "Failed to analyze websites"]
         ELSE IF variant = "vercel"
         THEN [ status |-> 200, success |-> TRUE,
                totalUrls |-> Len(body.urls),
                processedUrls |-> Len(urlsToProcess(variant, body.urls)),
                results |-> results,
                googleSheets |-> [ enabled |-> sheetsEnabled,
                                   totalSuccess |-> totalSheetsSuccess,
                                   totalErrors |-> totalSheetsErrors,
                                   summary |-> <<totalSheetsSuccess,
                                                 Len(urlsToProcess(variant, body.urls))>> ] ]
         ELSE [ status |-> 200, success |-> TRUE,
                totalUrls |-> Len(body.urls),
                results |-> results,
                googleSheets |-> [ enabled |-> sheetsEnabled,
                                   totalSuccess |-> totalSheetsSuccess,
                                   totalErrors |-> totalSheetsErrors,
                                   summary |-> <<totalSheetsSuccess, Len(body.urls)>> ] ]
    /\ browser' = [browser EXCEPT !.closes = @ + 1, !.open = ~closeOk]
    /\ UNCHANGED <<variant, analysisVars, body, analyses, results, totalSheetsSuccess,
                   totalSheetsErrors, sheetsEnabled, headerInitialized, sheet, appendCalls,
                   calls>>

InitBatch ==
    /\ variant \in ServerVariants
    /\ site = SampleSite
    /\ AnalysisInit
    /\ ServerInit
    /\ sheetsEnabled \in BOOLEAN

NextBatch ==
    \/ \E b \in Bodies, launchOk \in BOOLEAN : PostAnalyze(b, launchOk)
    \/ \E o \in AllOutcomes, headerOk \in BOOLEAN, appendOk \in BOOLEAN : AnalyzeNext(o, headerOk, appendOk)
    \/ \E closeOk \in BOOLEAN : Respond(closeOk)

SpecBatch == InitBatch /\ [][NextBatch]_vars

(***************************************************************************)
(* appendResultRow and ensureHeaderRow, called by concurrent requests      *)
(***************************************************************************)
\* the row request c appends (the record of a failed load of its site)
RowOf(c) == ResultRow([website |-> SiteUrl(c)] @@ LoadErrorRecord)

\* the variables the Sheets helpers leave alone
notSheetsVars ==
    <<variant, analysisVars, body, phase, analyses, results, totalSheetsSuccess,
      totalSheetsErrors, response, sheetsEnabled, browser, appendCalls>>

\* a call of appendResultRow by request c, up to its first Sheets API call:
\* ensureHeaderRow returns at once when headerInitialized is set, otherwise
\* it issues the read of A1
appendResultRow(c) ==
    /\ sheetsEnabled
    /\ calls[c].pc = "idle"
    /\ calls[c].finished < MaxAppends
    /\ calls' = [calls EXCEPT ![c].pc = IF headerInitialized THEN "append" ELSE "get"]
    /\ UNCHANGED <<notSheetsVars, headerInitialized, sheet>>

\* values.get of A1:A1 answers request c (ok) or throws into the catch of
\* ensureHeaderRow; an empty A1 makes ensureHeaderRow issue the header write
valuesGet(c, ok) ==
    /\ calls[c].pc = "get"
    /\ IF ~ok
       THEN /\ calls' = [calls EXCEPT ![c].pc = "append"]
            /\ UNCHANGED headerInitialized
       ELSE IF sheet = <<>>
       THEN /\ calls' = [calls EXCEPT ![c].pc = "update"]
            /\ UNCHANGED headerInitialized
       ELSE /\ calls' = [calls EXCEPT ![c].pc = "append"]
            /\ headerInitialized' = TRUE
    /\ UNCHANGED <<notSheetsVars, sheet>>

\* values.update of A1 with the header row answers request c or throws
\* into the catch of ensureHeaderRow; then the append is issued
valuesUpdate(c, ok) ==
    /\ calls[c].pc = "update"
    /\ calls' = [calls EXCEPT ![c].pc = "append"]
    /\ headerInitialized' = (headerInitialized \/ ok)
    /\ sheet' = IF ~ok THEN sheet
                ELSE IF sheet = <<>> THEN <<HeaderRow>>
                ELSE [sheet EXCEPT ![1] = HeaderRow]
    /\ UNCHANGED notSheetsVars

\* values.append answers request c or throws to the caller of
\* appendResultRow; either way the call is over
valuesAppend(c, ok) ==
    /\ calls[c].pc = "append"
    /\ calls' = [calls EXCEPT ![c].pc = "idle", ![c].finished = @ + 1]
    /\ sheet' = IF ok THEN Append(sheet, RowOf(c)) ELSE sheet
    /\ UNCHANGED <<notSheetsVars, headerInitialized>>

InitSheets ==
    /\ variant \in ServerVariants
    /\ site = SampleSite
    /\ AnalysisInit
    /\ ServerInit
    /\ sheetsEnabled = TRUE

NextSheets ==
    \/ \E c \in Callers : appendResultRow(c)
    \/ \E c \in Callers, ok \in BOOLEAN : valuesGet(c, ok)
    \/ \E c \in Callers, ok \in BOOLEAN : valuesUpdate(c, ok)
    \/ \E c \in Callers, ok \in BOOLEAN : valuesAppend(c, ok)

SpecSheets == InitSheets /\ [][NextSheets]_vars

(***************************************************************************)
(* Properties                                                              *)
(***************************************************************************)
Labels ==
    << "GTM (client-side)",
       "GA4 Server-Side (custom endpoint)",
       "GA4 gtag.js (client-side)",
       "Google Analytics (client-side)",
       "Possibly server-side (no GTM/GA requests detected)",
       "GA4 loaded but consent-blocked",
       "Unknown" >>

\* the seven conditions of the cascade, in the listed order, on the state
\* the observation has accumulated
CascadeConds ==
    << \E i \in 1..Len(networkRequests) :
            Includes(networkRequests[i], "googletagmanager.com/gtm.js"),
       hasCustomAnalytics(networkRequests) /\ Cardinality(ga4Ids) > 0,
       /\ \E i \in 1..Len(networkRequests) :
            Includes(networkRequests[i], "googletagmanager.com/gtag/js")
       /\ Cardinality(ga4Ids) > 0,
       \E i \in 1..Len(networkRequests) :
            Includes(networkRequests[i], "google-analytics.com"),
       summary.gtm = 0 /\ summary.ga = 0 /\ Cardinality(ga4Ids) = 0,
       Cardinality(ga4Ids) > 0 /\ summary.ga = 0,
       TRUE >>

FirstCond == Min({i \in 1..7 : CascadeConds[i]})

\* C1: the classifier yields exactly one of the seven labels, the label of
\* the first condition of the cascade (in the order 1..7) that holds; when
\* two conditions hold at once the earlier one decides.
C1_CascadeFirstMatch ==
    pc = "done" =>
        /\ \E i \in 1..7 : result.trackingType = Labels[i]
        /\ result.trackingType = Labels[FirstCond]

\* a finished analysis in which conditions 1 and 2 hold together and the
\* label is the one of condition 1
C1_Witness ==
    /\ pc = "done"
    /\ CascadeConds[1] /\ CascadeConds[2]
    /\ result.trackingType = Labels[1]

IsGoogleUrl(url) ==
    Includes(url, "google-analytics.com") \/ Includes(url, "googletagmanager.com")

\* C2: when every recorded request URL is on google-analytics.com or
\* googletagmanager.com the label is never "GA4 Server-Side (custom
\* endpoint)"; without a gtm.js request and with a google-analytics.com
\* request carrying tid=G-... the label is "Google Analytics (client-side)",
\* or "GA4 gtag.js (client-side)" when a gtag/js request is present too.
C2_CustomSignalOnlyNonGoogle ==
    (pc = "done" /\ \A i \in 1..Len(networkRequests) : IsGoogleUrl(networkRequests[i])) =>
        /\ result.trackingType # "GA4 Server-Side (custom endpoint)"
        /\ ( /\ ~\E i \in 1..Len(networkRequests) :
                    Includes(networkRequests[i], "googletagmanager.com/gtm.js")
             /\ \E i \in 1..Len(networkRequests) :
                    /\ Includes(networkRequests[i], "google-analytics.com")
                    /\ Includes(networkRequests[i], "tid=G-") )
           => result.trackingType =
                 IF \E i \in 1..Len(networkRequests) :
                        Includes(networkRequests[i], "googletagmanager.com/gtag/js")
                 THEN "GA4 gtag.js (client-side)"
                 ELSE "Google Analytics (client-side)"

\* C3: consent mode presence and version do not depend on the request
\* order: gcs=G100 or gcs=G110 in any recorded URL gives detected, v2; else
\* gcs= in any recorded URL gives detected, v1; else not detected.
C3_ConsentModeAnyOrder ==
    pc = "done" =>
        IF \E i \in 1..Len(networkRequests) :
              Includes(networkRequests[i], "gcs=G100") \/ Includes(networkRequests[i], "gcs=G110")
        THEN result.consentMode.detected /\ result.consentMode.version = "v2"
        ELSE IF \E i \in 1..Len(networkRequests) : Includes(networkRequests[i], "gcs=")
        THEN result.consentMode.detected /\ result.consentMode.version = "v1"
        ELSE ~result.consentMode.detected

\* the page and its window objects hold no GTM id
PageHasNoGtmId ==
    /\ ~Includes(site.content, "GTM-")
    /\ ~Includes(site.dataLayer, "GTM-")
    /\ \A key \in site.tagManagerKeys : ~Includes(key, "GTM-")
    /\ \A script \in site.scripts : ~Includes(script, "GTM-")

\* nothing was observed: no request arrived and the page holds no id
ZeroObservations ==
    /\ observed = <<>>
    /\ PageHasNoGtmId

\* C4 as claimed: an analysis with zero observations (failed load, or a
\* load without requests) yields empty id sets, zero counters,
\* trackingType "Unknown" and consent not detected.
C4_ZeroObservationsUnknown ==
    (pc = "done" /\ ZeroObservations) =>
        /\ result.gtmIds = {} /\ result.ga4Ids = {}
        /\ result.summary = [gtm |-> 0, ga |-> 0, other |-> 0]
        /\ result.trackingType = "Unknown"
        /\ ~result.consentMode.detected

\* C4 amended: a loaded page with zero observations yields empty id sets,
\* zero counters, consent not detected and the label "Possibly server-side
\* (no GTM/GA requests detected)"; a failed load returns only the error and
\* summary = null; either way a record is returned.
C4_ZeroObservationsPossiblyServerSide ==
    /\ (pc = "done" /\ ZeroObservations) =>
          /\ result.gtmIds = {} /\ result.ga4Ids = {}
          /\ result.summary = [gtm |-> 0, ga |-> 0, other |-> 0]
          /\ result.trackingType = "Possibly server-side (no GTM/GA requests detected)"
          /\ ~result.consentMode.detected
          /\ result.error = "null"
    /\ pc = "failed" =>
          result = [website |-> site.website, error |-> "load error", summary |-> "null"]

\* a finished analysis of a page that issued no request and held no id
C4_Witness ==
    /\ pc = "done" /\ ZeroObservations
    /\ result.networkRequests = 0

\* C5: a GA4 id that appears only in the page or script content, with no ga
\* request and no gtm.js, gtag/js or custom-endpoint request, is in the GA4
\* id set of the result and the label is "GA4 loaded but consent-blocked".
C5_ContentGa4IdConsentBlocked ==
    ( /\ pc = "done"
      /\ Includes(site.content, "G-QWERTY1")
      /\ summary.ga = 0
      /\ \A i \in 1..Len(observed) :
            /\ ~Includes(observed[i], "googletagmanager.com/gtm.js")
            /\ ~Includes(observed[i], "googletagmanager.com/gtag/js")
            /\ ~Includes(observed[i], "G-QWERTY1") )
    => /\ "G-QWERTY1" \in result.ga4Ids
       /\ result.trackingType = "GA4 loaded but consent-blocked"

UrlScenarioA == "https://www.googletagmanager.com/gtm.js?id=GTM-ABC123"

UrlScenarioB == "https://analytics.example.com/g/collect?tid=G-XYZ999"

\* C6: a run whose only observed request is
\* https://www.googletagmanager.com/gtm.js?id=GTM-ABC123 ends with the label
\* "GTM (client-side)", gtmIds = {GTM-ABC123} (one element, no duplicates
\* from the three URL patterns), gtm counter 1 and gtmLoadedInitially true.
C6_ScenarioA ==
    ( /\ pc = "done"
      /\ observed = <<UrlScenarioA>>
      /\ PageHasNoGtmId )
    => /\ result.trackingType = "GTM (client-side)"
       /\ result.gtmIds = {"GTM-ABC123"}
       /\ Cardinality(result.gtmIds) = 1
       /\ result.summary.gtm = 1
       /\ result.gtmLoadedInitially = TRUE

C6_Witness ==
    /\ pc = "done"
    /\ observed = <<UrlScenarioA>>
    /\ PageHasNoGtmId
    /\ result.gtmIds = {"GTM-ABC123"}

\* C7: a run whose only observed requests go to
\* https://analytics.example.com/g/collect?tid=G-XYZ999 ends with the label
\* "GA4 Server-Side (custom endpoint)", ga4Ids = {G-XYZ999}, and every such
\* request counted in category ga.
C7_ScenarioB ==
    ( /\ pc = "done"
      /\ Len(observed) >= 1
      /\ \A i \in 1..Len(observed) : observed[i] = UrlScenarioB )
    => /\ result.trackingType = "GA4 Server-Side (custom endpoint)"
       /\ result.ga4Ids = {"G-XYZ999"}
       /\ result.summary = [gtm |-> 0, ga |-> Len(observed), other |-> 0]

C7_Witness ==
    /\ pc = "done"
    /\ observed = <<UrlScenarioB, UrlScenarioB>>
    /\ result.summary.ga = 2

UrlScenarioD ==
    "https://www.google-analytics.com/g/collect?tid=G-XYZ999&gcs=G100&gcd=13p3p3p2p5l1"

UrlShortGcd ==
    "https://www.google-analytics.com/g/collect?tid=G-XYZ999&gcs=G111&gcd=11l1p2"

\* positions of the recorded URLs that carry a gcd parameter
GcdPositions == {k \in 1..Len(networkRequests) : gcdMatch(networkRequests[k]) # NoMatch}

\* the gcd token of the first recorded URL that carries one
FirstGcdToken == gcdMatch(networkRequests[Min(GcdPositions)])

\* the i-th two-character chunk after the two version characters
Chunk(tok, i) == SubSeq(tok, 2 * i + 1, 2 * i + 2)

\* C8 as claimed: the decoder skips two characters and maps the successive
\* two-character chunks to ad_storage, analytics_storage,
\* functionality_storage, personalization_storage, security_storage with
\* p3 -> granted, p2 -> denied, l1 -> not_set, else unknown; gcd=13p3p3p2p5l1
\* gives granted, granted, denied, unknown, not_set.
C8_DecodeNotSetUnderscore ==
    (pc = "done" /\ variant = "cli" /\ GcdPositions # {}) =>
        /\ \A i \in 1..5 :
              2 * i + 2 <= Len(FirstGcdToken) =>
                 result.consentMode.states[consentTypes[i]] =
                    CASE Chunk(FirstGcdToken, i) = "p3" -> "granted"
                      [] Chunk(FirstGcdToken, i) = "p2" -> "denied"
                      [] Chunk(FirstGcdToken, i) = "l1" -> "not_set"
                      [] OTHER -> "unknown"
        /\ FirstGcdToken = "13p3p3p2p5l1" =>
              result.consentMode.states =
                 [ ad_storage |-> "granted", analytics_storage |-> "granted",
                   functionality_storage |-> "denied",
                   personalization_storage |-> "unknown",
                   security_storage |-> "not_set" ]

\* C8 amended: the same decoding, with l1 reported as the string "not set";
\* gcd=13p3p3p2p5l1 gives granted, granted, denied, unknown, "not set".
C8_DecodeChunks ==
    (pc = "done" /\ variant = "cli" /\ GcdPositions # {}) =>
        /\ \A i \in 1..5 :
              2 * i + 2 <= Len(FirstGcdToken) =>
                 result.consentMode.states[consentTypes[i]] =
                    CASE Chunk(FirstGcdToken, i) = "p3" -> "granted"
                      [] Chunk(FirstGcdToken, i) = "p2" -> "denied"
                      [] Chunk(FirstGcdToken, i) = "l1" -> "not set"
                      [] OTHER -> "unknown"
        /\ FirstGcdToken = "13p3p3p2p5l1" =>
              result.consentMode.states =
                 [ ad_storage |-> "granted", analytics_storage |-> "granted",
                   functionality_storage |-> "denied",
                   personalization_storage |-> "unknown",
                   security_storage |-> "not set" ]

\* the cli finished on a run whose first gcd token is 13p3p3p2p5l1
C8_Witness ==
    /\ pc = "done" /\ variant = "cli"
    /\ GcdPositions # {}
    /\ FirstGcdToken = "13p3p3p2p5l1"
    /\ result.consentMode.states["security_storage"] = "not set"

ConsentTypeSet == {consentTypes[i] : i \in 1..Len(consentTypes)}

\* C9 as claimed: after decoding every one of the five categories maps to
\* one of granted, denied, not_set, unknown; categories the token is too
\* short for, and all five without a gcd parameter, are reported unknown.
C9_ConsentStateTotal ==
    pc = "done" =>
        /\ DOMAIN result.consentMode.states = ConsentTypeSet
        /\ \A t \in ConsentTypeSet :
              result.consentMode.states[t] \in {"granted", "denied", "not_set", "unknown"}
        /\ \A i \in 1..5 :
              (GcdPositions = {} \/ 2 * i + 2 > Len(FirstGcdToken)) =>
                 result.consentMode.states[consentTypes[i]] = "unknown"

\* C9 amended: decoding never fails and yields a partial map: each category
\* present maps to one of granted, denied, "not set", unknown; the
\* categories the token is too short for, and all five when no gcd
\* parameter was recorded (and always in the two servers), are absent.
C9_ConsentStatePartial ==
    pc = "done" =>
        /\ DOMAIN result.consentMode.states \subseteq ConsentTypeSet
        /\ \A t \in DOMAIN result.consentMode.states :
              result.consentMode.states[t] \in {"granted", "denied", "not set", "unknown"}
        /\ (GcdPositions = {} \/ variant # "cli") =>
              DOMAIN result.consentMode.states = {}
        /\ (GcdPositions # {} /\ variant = "cli") =>
              DOMAIN result.consentMode.states =
                 {consentTypes[i] : i \in {j \in 1..5 : 2 * j + 2 <= Len(FirstGcdToken)}}

\* the cli finished on a token with two chunks: three categories are absent
C9_Witness ==
    /\ pc = "done" /\ variant = "cli"
    /\ GcdPositions # {}
    /\ FirstGcdToken = "11l1p2"
    /\ DOMAIN result.consentMode.states = {"ad_storage", "analytics_storage"}

\* C10: only the first recorded URL with a gcd= parameter determines the
\* consent state; requests appended after it, also ones with another gcd=
\* token, leave the decoded consent state unchanged.
C10_FirstGcdDecides ==
    [][ (variant = "cli" /\ GcdPositions # {}) =>
          /\ ConsentStatesFrom(networkRequests', 1) = ConsentStatesFrom(networkRequests, 1)
          /\ pc' = "done" =>
                result'.consentMode.states =
                   DecodeGcd(FirstGcdToken, 0, 2, EmptyStates) ]_vars

\* the cli finished on two recorded URLs with different gcd tokens and
\* reports the states of the first
C10_Witness ==
    /\ pc = "done" /\ variant = "cli"
    /\ networkRequests = <<UrlShortGcd, UrlScenarioD>>
    /\ DOMAIN result.consentMode.states = {"ad_storage", "analytics_storage"}

\* number of observed requests that satisfy the conditions of category c,
\* the conditions taken in the order gtm, ga, custom endpoint, other
OnGtm(url) == Includes(url, "googletagmanager.com")

OnGa(url) == Includes(url, "google-analytics.com")

CustomEndpointShape(url) ==
    Includes(url, "/g/collect") \/ Includes(url, "analytics.")

HasTidParam(url) == Includes(url, "?tid=G-") \/ Includes(url, "&tid=G-")

CategoryOf(url) ==
    IF OnGtm(url) THEN "gtm"
    ELSE IF OnGa(url) THEN "ga"
    ELSE IF (CustomEndpointShape(url) \/ HasTidParam(url)) /\ HasTidParam(url) THEN "ga"
    ELSE "other"

CountOf(c) == Cardinality({i \in 1..Len(observed) : CategoryOf(observed[i]) = c})

\* C11: every observed request raises exactly one of the counters gtm, ga,
\* other by one, so after n requests gtm + ga + other = n; the counter is
\* the one of the first branch that applies, the branches taken in the order
\* googletagmanager.com, google-analytics.com, custom endpoint, other.
C11_OneCounterPerRequest ==
    /\ summary.gtm + summary.ga + summary.other = Len(observed)
    /\ summary.gtm = CountOf("gtm")
    /\ summary.ga = CountOf("ga")
    /\ summary.other = CountOf("other")

\* two requests, one on google-analytics.com that also has the shape of a
\* custom endpoint, one on no known host: each raised one counter
C11_Witness ==
    /\ Len(observed) = 2
    /\ \E i \in 1..2 : OnGa(observed[i]) /\ CustomEndpointShape(observed[i])
    /\ summary = [gtm |-> 0, ga |-> 1, other |-> 1]

\* C12: observing a request URL that was observed before leaves gtmIds and
\* ga4Ids unchanged and raises only the counter of that URL's category, by
\* one.
C12_RepeatedUrlIdempotent ==
    [][ \A url \in UrlPool :
          ( /\ observed' = Append(observed, url)
            /\ \E i \in 1..Len(observed) : observed[i] = url )
          => /\ gtmIds' = gtmIds
             /\ ga4Ids' = ga4Ids
             /\ \A c \in {"gtm", "ga", "other"} :
                   summary'[c] = IF c = CategoryOf(url) THEN summary[c] + 1 ELSE summary[c]
      ]_vars

\* the same id-carrying URL was observed twice: counted twice, its id once
C12_Witness ==
    /\ Len(observed) = 2
    /\ observed[1] = observed[2]
    /\ summary.gtm = 2
    /\ gtmIds = {"GTM-ABC123"}

\* C13: within one analysis the id sets and the counters only grow: no step
\* (request, content scan, runtime scan) removes an element or lowers a
\* counter.
C13_Monotone ==
    [][ /\ gtmIds \subseteq gtmIds'
        /\ ga4Ids \subseteq ga4Ids'
        /\ \A c \in {"gtm", "ga", "other"} : summary[c] <= summary'[c]
      ]_vars

\* ids from a request are still there after the scans added theirs
C13_Witness ==
    /\ pc = "scanned"
    /\ Len(observed) = 1
    /\ observed[1] = "https://www.googletagmanager.com/gtm.js?id=GTM-ABC123"
    /\ {"GTM-ABC123", "GTM-DL0001"} \subseteq gtmIds
    /\ ~Includes(site.dataLayer, "GTM-ABC123")

\* C14: for a URL with neither googletagmanager.com nor
\* google-analytics.com, ga is raised and the URL recorded only if a
\* tid=G-... parameter is present, and then its id is in ga4Ids; a URL with
\* /g/collect or analytics. but without tid=G-... is counted as other, is
\* not recorded and adds no identifier.
C14_CustomNeedsTid ==
    [][ \A url \in UrlPool :
          (observed' = Append(observed, url) /\ ~OnGtm(url) /\ ~OnGa(url))
          => /\ (summary'.ga # summary.ga \/ networkRequests' # networkRequests)
                 => /\ HasTidParam(url)
                    /\ summary'.ga = summary.ga + 1
                    /\ networkRequests' = Append(networkRequests, url)
                    /\ \E id \in ga4Ids' : Includes(url, "tid=" \o id)
             /\ (CustomEndpointShape(url) /\ ~HasTidParam(url))
                 => /\ summary' = [summary EXCEPT !.other = @ + 1]
                    /\ networkRequests' = networkRequests
                    /\ gtmIds' = gtmIds /\ ga4Ids' = ga4Ids
      ]_vars

\* both kinds were observed: the endpoint with tid=G-... counted as ga with
\* its id, the analytics. URL without tid counted as other
C14_Witness ==
    /\ observed = << "https://analytics.example.com/g/collect?tid=G-XYZ999",
                     "https://stats.example.com/analytics.js" >>
    /\ summary = [gtm |-> 0, ga |-> 1, other |-> 1]
    /\ ga4Ids = {"G-XYZ999"}
    /\ Len(networkRequests) = 1

\* C15: gtmLoadedInitially is true exactly when some observed request URL
\* contains googletagmanager.com/gtm.js; gaCookielessHits is true exactly
\* when one observed request URL contains both google-analytics.com and
\* gcs=G100; neither depends on the label the cascade gives.
C15_InitialLoadAndCookieless ==
    pc = "done" =>
        /\ result.gtmLoadedInitially
              = (\E i \in 1..Len(observed) : Includes(observed[i], "googletagmanager.com/gtm.js"))
        /\ result.gaCookielessHits
              = (\E i \in 1..Len(observed) :
                    /\ Includes(observed[i], "google-analytics.com")
                    /\ Includes(observed[i], "gcs=G100"))

\* gcs=G100 and google-analytics.com were both observed, but in different
\* URLs: no cookieless hit is reported
C15_Witness ==
    /\ pc = "done"
    /\ \E i, j \in 1..Len(observed) :
          /\ Includes(observed[i], "gcs=G100") /\ ~Includes(observed[i], "google-analytics.com")
          /\ Includes(observed[j], "google-analytics.com") /\ ~Includes(observed[j], "gcs=G100")
    /\ ~result.gaCookielessHits
    /\ ~result.gtmLoadedInitially

ToolMarkers == << "cookiebot.com", "onetrust.com", "trustarc.com", "quantcast.mgr" >>

ToolNames == << "Cookiebot", "OneTrust", "TrustArc", "Quantcast" >>

\* C16: consentTool is the tool of the first marker, in the order
\* cookiebot.com, onetrust.com, trustarc.com, quantcast.mgr, that the
\* scanned page text contains, else "Unknown"; it is computed from the page
\* text alone and does not follow the run-time consentToolStates report,
\* which may name another tool.
C16_ConsentToolFromText ==
    pc = "done" =>
        LET found == {i \in 1..4 : Includes(site.content, ToolMarkers[i])}
        IN  result.consentMode.tool = IF found = {} THEN "Unknown" ELSE ToolNames[Min(found)]

\* a page whose text names two tools and whose run-time report names a
\* third one: the first marker in the text decides
C16_Witness ==
    /\ pc = "done"
    /\ Includes(site.content, "onetrust.com") /\ Includes(site.content, "trustarc.com")
    /\ result.consentMode.tool = "OneTrust"
    /\ result.consentToolStates.tool = "LocalStorage"

\* the arrival orders of the observed request events
ArrivalOrders ==
    {[i \in 1..Len(observed) |-> observed[f[i]]] : f \in Permutations(1..Len(observed))}

\* the result of the running variant had the requests arrived in order p
ResultInOrder(p) ==
    ResultRecord(variant, site.content, FoldRequests(p, InitialAccumulators), consentToolStates)

\* the fields C18 lists are the same for arrival order p; gtmIds is compared
\* up to the ids the page scans may have added
ListedFieldsAgree(p) ==
    /\ ResultInOrder(p).gtmIds \subseteq result.gtmIds
    /\ result.gtmIds \subseteq ResultInOrder(p).gtmIds \cup ScanGtmIds(variant, site, TRUE)
    /\ ResultInOrder(p).ga4Ids = result.ga4Ids
    /\ ResultInOrder(p).summary = result.summary
    /\ ResultInOrder(p).trackingType = result.trackingType
    /\ ResultInOrder(p).gtmLoadedInitially = result.gtmLoadedInitially
    /\ ResultInOrder(p).gaCookielessHits = result.gaCookielessHits

\* C18: permuting the arrival order of the request events does not change
\* the final gtmIds, ga4Ids, counters, trackingType, gtmLoadedInitially or
\* gaCookielessHits, and of the other fields of the result only the
\* gcd-decoded consent states may depend on which URL came first.
C18_OrderIndependent ==
    pc = "done" =>
        \A p \in ArrivalOrders :
            /\ ListedFieldsAgree(p)
            /\ ResultInOrder(p).consentMode.detected = result.consentMode.detected
            /\ ResultInOrder(p).consentMode.version = result.consentMode.version
            /\ ResultInOrder(p).consentMode.tool = result.consentMode.tool
            /\ ResultInOrder(p).networkRequests = result.networkRequests

\* the part of C18 that names its fields
C18_ListedFieldsOnly ==
    pc = "done" => \A p \in ArrivalOrders : ListedFieldsAgree(p)

\* C19: the three implementations are classification-equivalent: on the
\* same page and request events they give the same counters, gtmIds,
\* ga4Ids, consent-mode detected / version, consent states, consentTool,
\* trackingType, gtmLoadedInitially and gaCookielessHits.
C19_VariantsEquivalent ==
    (pc = "done" /\ result = analyzeWebsite(variant, site, observed, TRUE)) =>
        \A v \in Variants :
            LET r == analyzeWebsite(v, site, observed, TRUE) IN
            /\ r.summary = result.summary
            /\ r.gtmIds = result.gtmIds
            /\ r.ga4Ids = result.ga4Ids
            /\ r.consentMode = result.consentMode
            /\ r.trackingType = result.trackingType
            /\ r.gtmLoadedInitially = result.gtmLoadedInitially
            /\ r.gaCookielessHits = result.gaCookielessHits

\* the part of C19 that the three implementations do share
C19_SharedFields ==
    (pc = "done" /\ result = analyzeWebsite(variant, site, observed, TRUE)) =>
        \A v \in Variants :
            LET r == analyzeWebsite(v, site, observed, TRUE) IN
            /\ r.summary = result.summary
            /\ r.ga4Ids = result.ga4Ids
            /\ r.consentMode.detected = result.consentMode.detected
            /\ r.consentMode.version = result.consentMode.version
            /\ r.consentMode.tool = result.consentMode.tool
            /\ r.trackingType = result.trackingType
            /\ r.gtmLoadedInitially = result.gtmLoadedInitially
            /\ r.gaCookielessHits = result.gaCookielessHits

\* the k-th analysis of the loop ended in the catch of the observation
\* block (the site did not load)
LoadFailed(k) == analyses[k] = LoadErrorRecord

\* C17 as claimed: when a site fails to load, the caller still gets a
\* verdict for that site with error set and every analytic field at its
\* default: empty id lists, zero counters, trackingType "Unknown", consent
\* not detected.
C17_LoadFailureDefaults ==
    \A k \in 1..Len(analyses) :
        LoadFailed(k) =>
            /\ results[k].website = body.urls[k]
            /\ results[k].error = "load error"
            /\ results[k].analysis.gtmIds = {}
            /\ results[k].analysis.ga4Ids = {}
            /\ results[k].analysis.trackingType = "Unknown"
            /\ results[k].analysis.summary = [gtm |-> 0, ga |-> 0, other |-> 0]
            /\ results[k].analysis.consentMode.detected = FALSE

\* C17 amended: when a site fails to load, the loop still pushes an entry
\* for that site with error set, empty id lists and gtmContainers 0, but
\* with summary and consentMode null and with trackingType, the two flags
\* and networkRequests undefined; the Sheets row of a failed analysis
\* carries the defaults "Unknown", 0 and "No".  The failure is not thrown:
\* every URL of the loop has its entry and a 200 response lists them all.
C17_LoadFailureEntry ==
    /\ Len(results) = Len(analyses)
    /\ \A k \in 1..Len(analyses) :
          LoadFailed(k) =>
              /\ results[k].website = body.urls[k]
              /\ results[k].error = "load error"
              /\ results[k].analysis.gtmIds = {}
              /\ results[k].analysis.ga4Ids = {}
              /\ results[k].analysis.gtmContainers = 0
              /\ results[k].analysis.summary = "null"
              /\ results[k].analysis.consentMode = [null |-> TRUE]
              /\ results[k].analysis.trackingType = "undefined"
              /\ results[k].analysis.gtmLoadedInitially = "undefined"
              /\ results[k].analysis.gaCookielessHits = "undefined"
              /\ results[k].analysis.networkRequests = "undefined"
    /\ \A j \in 1..Len(sheet) :
          ("status" \in DOMAIN sheet[j] /\ sheet[j].status = "Error") =>
              /\ sheet[j].trackingType = "Unknown"
              /\ sheet[j].consentMode = "Unknown"
              /\ sheet[j].gtmCount = 0
              /\ sheet[j].networkRequests = 0
              /\ sheet[j].gtmLoadedInitially = "No"
              /\ sheet[j].error = "load error"
    /\ (phase = "responded" /\ response.status = 200) =>
          /\ response.results = results
          /\ Len(results) = Len(urlsToProcess(variant, body.urls))

\* a site failed to load, the loop went on to the next site, the response
\* is a 200 that lists both, and the Sheets row of the failure was written
C17_Witness ==
    /\ phase = "responded" /\ response.status = 200
    /\ Len(analyses) >= 2
    /\ LoadFailed(1) /\ ~LoadFailed(2)
    /\ Len(sheet) >= 2
    /\ "status" \in DOMAIN sheet[2] /\ sheet[2].status = "Error"

\* C20: the vercel build analyses only the first min(3, k) of k valid URLs,
\* one after the other in input order; its response has totalUrls = k,
\* processedUrls = min(3, k) and a results list of exactly min(3, k)
\* entries in input order.
C20_VercelFirstThree ==
    variant = "vercel" =>
        /\ Len(analyses) <= Min({3, Len(body.urls)})
        /\ Len(results) = Len(analyses)
        /\ \A j \in 1..Len(results) : results[j].website = body.urls[j]
        /\ (phase = "responded" /\ response.status = 200) =>
              /\ response.totalUrls = Len(body.urls)
              /\ response.processedUrls = Min({3, Len(body.urls)})
              /\ Len(response.results) = Min({3, Len(body.urls)})
              /\ \A j \in 1..Len(response.results) :
                    response.results[j].website = body.urls[j]

\* four valid URLs were posted to the vercel build and three were analysed
C20_Witness ==
    /\ variant = "vercel"
    /\ phase = "responded" /\ response.status = 200
    /\ Len(body.urls) = 4
    /\ response.totalUrls = 4
    /\ response.processedUrls = 3
    /\ Len(response.results) = 3

(***************************************************************************)
(* C25: what networkRequests holds                                         *)
(***************************************************************************)
\* the request for url falls in a category whose URLs are recorded
IsRecordedCategory(url) == CategoryOf(url) # "other"

C26_GtmLoadedIffGtmLabel ==
    pc = "done" =>
        (result.gtmLoadedInitially <=> result.trackingType = "GTM (client-side)")

\* a verdict with the label after a gtm.js load and a hit on a custom
\* endpoint that carries a GA4 id
C26_Witness ==
    /\ pc = "done"
    /\ result.gtmLoadedInitially
    /\ result.trackingType = "GTM (client-side)"
    /\ hasCustomAnalytics(networkRequests)
    /\ ga4Ids # {}

(***************************************************************************)
(* C27: cookieless hits imply a detected consent mode                      *)
(***************************************************************************)
\* C27: a verdict with gaCookielessHits = true has consentMode.detected =
\* true; its version is v2 or v1 (v1 when an earlier recorded URL carries
\* another gcs= value).
C27_CookielessImpliesDetected ==
    (pc = "done" /\ result.gaCookielessHits) =>
        /\ result.consentMode.detected
        /\ result.consentMode.version \in {"v1", "v2"}

\* a verdict with cookieless hits whose version is v1: a hit with gcs=G111
\* was recorded before the hit with gcs=G100
C27_Witness ==
    /\ pc = "done"
    /\ result.gaCookielessHits
    /\ result.consentMode.detected
    /\ result.consentMode.version = "v1"

(***************************************************************************)
(* C30: GA4 ids of the two servers come from counted requests only         *)
(***************************************************************************)
\* C30: in the web and vercel variants a non-empty ga4Ids implies
\* gtm + ga >= 1 at every point; so a verdict is labelled "GA4 loaded but
\* consent-blocked" only when gtm >= 1, and it is labelled "Possibly
\* server-side" exactly when gtm = 0 and ga = 0, whatever the third
\* conjunct (no GA4 id) of that condition says.
C30_Ga4IdsNeedCountedRequest ==
    variant \in {"web", "vercel"} =>
        /\ ga4Ids # {} => summary.gtm + summary.ga >= 1
        /\ pc = "done" =>
            /\ result.trackingType = "GA4 loaded but consent-blocked"
                    => result.summary.gtm >= 1
            /\ result.trackingType = "Possibly server-side (no GTM/GA requests detected)"
                    <=> (result.summary.gtm = 0 /\ result.summary.ga = 0)

\* a server verdict labelled consent-blocked: its GA4 id came from a
\* googletagmanager.com request, on a page whose text holds another GA4 id
C30_Witness ==
    /\ variant \in {"web", "vercel"}
    /\ pc = "done"
    /\ result.trackingType = "GA4 loaded but consent-blocked"
    /\ result.ga4Ids # {}
    /\ result.summary.gtm >= 1
    /\ Includes(site.content, "G-")

(***************************************************************************)
(* C29: what a failure of the observation block leaves                     *)
(***************************************************************************)
\* C29 as stated: whenever navigation or any step inside the observation
\* block fails, the page.evaluate scans included, the call ends with the
\* record of a failed load.
C29_AnyFailureDiscards ==
    [][(LoadError \/ ScanPage(FALSE)) =>
            /\ pc' = "failed"
            /\ DOMAIN result' = {"website", "error", "summary"}]_vars

\* C29 amended: when navigation or a step of the observation block that has
\* no try/catch of its own fails, everything accumulated is discarded: the
\* returned record has only website, error and summary = null, none of the
\* ids or counters collected before. A failing page.evaluate scan of the
\* cli and web variants is caught on the spot and the analysis goes on with
\* everything collected so far.
C29_UncaughtFailureDiscards ==
    [][ /\ pc' = "failed" =>
              /\ DOMAIN result' = {"website", "error", "summary"}
              /\ result'.website = site.website
              /\ result'.error # "null"
              /\ result'.summary = "null"
        /\ ScanPage(FALSE) =>
              /\ variant \in {"cli", "web"}
              /\ pc' = "scanned"
              /\ summary' = summary
              /\ networkRequests' = networkRequests
              /\ gtmIds \subseteq gtmIds'
              /\ ga4Ids' = ga4Ids ]_vars

\* a failed load after a request had raised a counter and given an id
C29_Witness ==
    /\ pc = "failed"
    /\ summary.gtm >= 1
    /\ gtmIds # {}
    /\ DOMAIN result = {"website", "error", "summary"}

(***************************************************************************)
(* C28: form of the collected identifiers                                  *)
(***************************************************************************)
\* id is prefix followed by one or more upper-case letters or digits
IsWellFormedId(id, prefix) ==
    /\ Len(id) > Len(prefix)
    /\ SubSeq(id, 1, Len(prefix)) = prefix
    /\ \A k \in (Len(prefix) + 1)..Len(id) : CharAt(id, k) \in AlnumUpper

\* C28: every element ever added to gtmIds is exactly GTM- followed by one
\* or more upper-case letters or digits and every element of ga4Ids exactly
\* G- followed by upper-case letters or digits, whatever the URLs, the
\* tag-manager key names and the dataLayer hold.
C28_IdsWellFormed ==
    /\ \A id \in gtmIds : IsWellFormedId(id, "GTM-")
    /\ \A id \in ga4Ids : IsWellFormedId(id, "G-")

(***************************************************************************)
(* C21: one row-append attempt per returned analysis                       *)
(***************************************************************************)
\* the k-th analysis of the loop returned a record (it did not throw)
AnalysisReturned(k) == "thrown" \notin DOMAIN analyses[k]

\* positions in the loop of the analyses that returned, in loop order
ReturnedPositions == SelectSeq([k \in 1..Len(analyses) |-> k], AnalysisReturned)

\* C21: with the Sheets export enabled, every analysed URL whose analysis
\* returned a record (a result or a load error) has caused exactly one
\* row-append attempt, made before the next URL is analysed; the attempts
\* are in loop order, totalSuccess + totalErrors is the number of URLs whose
\* analysis returned, and totalSuccess counts exactly the appends that did
\* not fail (one sheet row each).
C21_OneAppendPerReturnedAnalysis ==
    sheetsEnabled =>
        /\ Len(appendCalls) = Len(ReturnedPositions)
        /\ \A j \in 1..Len(appendCalls) :
              appendCalls[j].website
                 = urlsToProcess(variant, body.urls)[ReturnedPositions[j]]
        /\ totalSheetsSuccess + totalSheetsErrors = Len(ReturnedPositions)
        /\ totalSheetsSuccess = Cardinality({j \in 1..Len(appendCalls) : appendCalls[j].ok})
        /\ totalSheetsSuccess = Cardinality({j \in 1..Len(sheet) : sheet[j] # HeaderRow})
        /\ response.status = 200 =>
              /\ response.googleSheets.totalSuccess = totalSheetsSuccess
              /\ response.googleSheets.totalErrors = totalSheetsErrors

\* a batch answered with the export enabled: one analysis threw, one gave a
\* load error, one append failed and one went through
C21_Witness ==
    /\ sheetsEnabled
    /\ response.status = 200
    /\ \E k \in 1..Len(analyses) : ~AnalysisReturned(k)
    /\ \E k \in 1..Len(analyses) : analyses[k] = LoadErrorRecord
    /\ response.googleSheets.totalSuccess >= 1
    /\ response.googleSheets.totalErrors >= 1

(***************************************************************************)
(* C23: validation of the request body                                     *)
(***************************************************************************)
\* the body of the request received fails the validation: urls is missing,
\* not an array, empty, or holds an entry that does not parse as a URL
BodyRejected ==
    \/ body.kind # "array"
    \/ Len(body.urls) = 0
    \/ \E k \in 1..Len(body.urls) : ~IsValidUrl(body.urls[k])

\* C23: validation is all-or-nothing: a request whose urls is missing, not
\* an array, empty or contains an unparseable URL is answered with 400 and
\* no browser is launched, no site analysed and no sheet row appended, also
\* not for the valid URLs of the same request; no other request gets a 400.
C23_ValidationAllOrNothing ==
    /\ (phase # "idle" /\ BodyRejected) =>
          /\ phase = "responded"
          /\ response.status = 400
          /\ browser.launches = 0
          /\ analyses = <<>>
          /\ results = <<>>
          /\ appendCalls = <<>>
          /\ sheet = <<>>
    /\ response.status = 400 => BodyRejected

\* a rejected request that holds a valid URL before the unparseable one
C23_Witness ==
    /\ phase = "responded"
    /\ response.status = 400
    /\ Len(body.urls) = 2
    /\ IsValidUrl(body.urls[1])
    /\ ~IsValidUrl(body.urls[2])
    /\ sheetsEnabled

(***************************************************************************)
(* C24: one entry per processed URL, the browser closed once               *)
(***************************************************************************)
\* the entry results[k] is the one the loop makes for the outcome analyses[k]
EntryMatchesOutcome(k) ==
    IF "thrown" \in DOMAIN analyses[k]
    THEN /\ results[k].error = analyses[k].thrown
         /\ results[k].analysis = [null |-> TRUE]
    ELSE /\ results[k].error = analyses[k].error
         /\ results[k].analysis.summary = analyses[k].summary

\* C24: every processed URL contributes exactly one entry to results, in
\* input order, whether its analysis succeeded, returned a load error or
\* threw; a failure on one URL never stops the analysis of the following
\* URLs; and the browser is closed exactly once, after the last URL and
\* before the response is sent.
C24_OneEntryPerUrlBrowserClosedOnce ==
    /\ Len(results) = Len(analyses)
    /\ \A k \in 1..Len(results) :
          /\ results[k].website = urlsToProcess(variant, body.urls)[k]
          /\ EntryMatchesOutcome(k)
    /\ phase = "loop" => (browser.open /\ browser.closes = 0)
    /\ browser.closes <= 1
    /\ browser.closes = 1 =>
          /\ phase = "responded"
          /\ Len(analyses) = Len(urlsToProcess(variant, body.urls))
    /\ (phase = "responded" /\ analyses # <<>>) => browser.closes = 1
    /\ response.status = 200 =>
          /\ browser.closes = 1
          /\ ~browser.open
          /\ response.results = results
          /\ Len(response.results) = Len(urlsToProcess(variant, body.urls))

\* a batch answered after a first analysis that threw, a second that
\* returned a load error and a third that succeeded
C24_Witness ==
    /\ response.status = 200
    /\ Len(analyses) >= 3
    /\ "thrown" \in DOMAIN analyses[1]
    /\ analyses[2] = LoadErrorRecord
    /\ "trackingType" \in DOMAIN analyses[3]
    /\ Len(response.results) = Len(analyses)
    /\ browser.closes = 1

(***************************************************************************)
(* C22: creation of the header row                                         *)
(***************************************************************************)
\* some row of the sheet is a result row
HasResultRow(rows) == \E j \in 1..Len(rows) : rows[j] # HeaderRow

\* C22: starting from an empty sheet, after any sequence of appendResultRow
\* calls, sequential or interleaved across concurrent requests, with any
\* Sheets API call allowed to fail, the header row is written before the
\* first result row, it is written only when cell A1 is empty, and once
\* headerInitialized is true no further read or write of the header is
\* issued.
C22_HeaderFirstAndOnlyOnEmptyA1 ==
    [][ /\ HasResultRow(sheet') => sheet'[1] = HeaderRow
        /\ \A c \in Callers : valuesUpdate(c, TRUE) => sheet = <<>>
        /\ \A c \in Callers :
              (calls'[c].pc \in {"get", "update"} /\ calls'[c].pc # calls[c].pc)
                 => ~headerInitialized ]_vars

\* what does hold: the flag is set only when A1 is filled, and no read or
\* write of the header is issued once the flag is set
C22_NoHeaderCallOnceInitialized ==
    [][ /\ headerInitialized' => sheet' # <<>>
        /\ \A c \in Callers :
              (calls'[c].pc \in {"get", "update"} /\ calls'[c].pc # calls[c].pc)
                 => ~headerInitialized ]_vars

====
